---------------------------- MODULE Spec2Model ----------------------------
(***************************************************************************)
(* A model of the dali image service: the axum handler                     *)
(* routes::image::process_image, the FileImageProvider behind it, the      *)
(* rayon worker it hands the pipeline to, and the pipeline                 *)
(* image_processor::process_image itself.                                  *)
(*                                                                         *)
(* Strings that the code takes apart (addresses, paths) are sequences of   *)
(* tokens; Option<T> is a sequence of length 0 (None) or 1 (Some).         *)
(* Image bytes are records that say what libvips and rexif would find in   *)
(* them: whether they decode, the decoded width and height, the EXIF       *)
(* orientation entry.                                                      *)
(***************************************************************************)
EXTENDS Integers, Sequences, FiniteSets, TLC

(* ------------------------------ bounds -------------------------------- *)

\* The longest watermark list a request of Spec carries.
MaxWm == 2
\* File modification times are 0..MaxMTime ticks.
MaxMTime == 2
\* Image sides of SpecPipe's inputs are 1..MaxDim.
MaxDim == 3

\* Ticks per second: httpdate::fmt_http_date prints whole seconds.
TicksPerSec == 2

(* ------------------------------ Option -------------------------------- *)

None == <<>>
Some(v) == <<v>>
is_some(o) == Len(o) = 1
unwrap(o) == o[1]

(* ------------------------------ bytes --------------------------------- *)

\* What a byte buffer holds. dec: libvips can decode it; w, h: the decoded
\* size; exif: the value of the EXIF orientation entry, None when there is
\* no such entry or the EXIF data does not parse.
Bytes(id, dec, w, h, exif) ==
    [id |-> id, dec |-> dec, w |-> w, h |-> h, exif |-> exif]

\* A file that File::create has made and nothing was written to yet.
EmptyBytes == Bytes("empty", FALSE, 0, 0, None)

ImgBytes == Bytes("img", TRUE, 4, 2, None)
TallBytes == Bytes("tall", TRUE, 2, 4, Some(6))
WmBytes == Bytes("wm", TRUE, 2, 1, None)
RemoteWmBytes == Bytes("rwm", TRUE, 1, 1, None)
RemoteImgBytes == Bytes("rimg", TRUE, 3, 3, None)
BadBytes == Bytes("bad", FALSE, 0, 0, None)

(* ----------------------------- addresses ------------------------------ *)

Root == "public"

LocalImg == <<"img.jpg">>
LocalTall == <<"tall.jpg">>
LocalBad == <<"bad.bin">>
LocalWm == <<"wm.png">>
LocalMissing == <<"missing.jpg">>
RemoteImg == <<"http://", "cdn", "/r/", "400X400.jpg">>
RemoteWm == <<"https://", "cdn", "/wm.png">>
RemoteBadUrl == <<"http://", "[", "/x.jpg">>

MainAddrs == {LocalImg, LocalTall, LocalBad, LocalMissing, RemoteImg, RemoteBadUrl}
WmAddrs == {LocalWm, LocalBad, RemoteWm}

\* str::starts_with("http://") || str::starts_with("https://")
starts_with_http(a) == Len(a) > 0 /\ a[1] \in {"http://", "https://"}

\* str::ends_with("400X400.jpg")
ends_with_400(a) == Len(a) > 0 /\ a[Len(a)] = "400X400.jpg"

\* Url::parse: fails on a host that is no host; path() is what follows it.
UrlParse(a) ==
    IF Len(a) >= 2 /\ a[2] # "["
    THEN [ok |-> TRUE, path |-> SubSeq(a, 3, Len(a))]
    ELSE [ok |-> FALSE, path |-> <<>>]

\* What the remote server holds at a URL.
RemoteContent(a) == IF a = RemoteImg THEN RemoteImgBytes ELSE RemoteWmBytes

\* A handler path for local addresses with no "/" after the root.
real_filepath_NoSeparator(a) ==
    IF starts_with_http(a)
    THEN <<Root>> \o UrlParse(a).path
    ELSE <<Root>> \o a

\* The handler's real_filepath.
real_filepath(a) ==
    IF starts_with_http(a)
    THEN <<Root>> \o UrlParse(a).path
    ELSE <<Root, "/">> \o a

\* The provider's file paths.
provider_filepath(a) ==
    IF starts_with_http(a)
    THEN <<Root>> \o UrlParse(a).path
    ELSE <<Root, "/">> \o a

Paths ==
    {provider_filepath(a) :
        a \in {x \in MainAddrs \cup WmAddrs : ~starts_with_http(x) \/ UrlParse(x).ok}}

NoFile == [exists |-> FALSE, bytes |-> EmptyBytes, mtime |-> 0]
File(b, m) == [exists |-> TRUE, bytes |-> b, mtime |-> m]

MTimes == 0 .. MaxMTime

\* The times the service writes a cache file at: the files it finds at
\* start are older.
WriteTimes == {MaxMTime - 1, MaxMTime}

\* httpdate::fmt_http_date: the time cut to whole seconds.
fmt_http_date(m) == <<"date", m \div TicksPerSec>>

(* ------------------------------ results ------------------------------- *)

NoVal == <<>>
\* An error value: its variant, and what the variant carries (a status code
\* and a resource, or the libvips error it wraps).
ErrorValue(kind, code, resource, cause) ==
    [kind |-> kind, code |-> code, resource |-> resource, cause |-> cause]
NoErr == ErrorValue("none", 0, <<>>, "none")
Error(kind) == ErrorValue(kind, 0, <<>>, "none")
ClientReturnedErrorStatusCode(code, resource) ==
    ErrorValue("ClientReturnedErrorStatusCode", code, resource, "none")
InvalidResourceUriProvided(resource) ==
    ErrorValue("InvalidResourceUriProvided", 0, resource, "none")
LibvipsProcessingFailed(e) ==
    ErrorValue("LibvipsProcessingFailed", 0, <<>>, e.kind)

Ok(v) == [ok |-> TRUE, val |-> v, err |-> NoErr]
Err(e) == [ok |-> FALSE, val |-> NoVal, err |-> e]

(* ------------------------- request parameters ------------------------- *)

\* commons::WatermarkSpec. size is a percentage of the base image, alpha
\* is in hundredths, position is Point or Center with its offsets.
WatermarkSpec(addr, size, alpha, kind, dx, dy) ==
    [image_address |-> addr, size |-> size, alpha |-> alpha,
     position |-> [kind |-> kind, dx |-> dx, dy |-> dy]]

\* commons::Size and the crop box: two optional sides.
Dims(w, h) == [w |-> w, h |-> h]
NoDims == Dims(None, None)

\* commons::ProcessImageRequest
ProcessImageRequest(addr, size, format, quality, watermarks, rotation, crop, square) ==
    [image_address |-> addr, size |-> size, format |-> format,
     quality |-> quality, watermarks |-> watermarks, rotation |-> rotation,
     crop |-> crop, square |-> square]

Formats == {"jpeg", "webp", "png", "heic"}

(* --------------------------- the image engine ------------------------- *)

Max(a, b) == IF a >= b THEN a ELSE b
Min(a, b) == IF a <= b THEN a ELSE b
\* a * b / c rounded to the nearest integer, at least 1.
ScaleRound(a, b, c) == Max(1, (2 * a * b + c) \div (2 * c))

Image(w, h) == [w |-> w, h |-> h]
NoImage == Image(0, 0)

\* VipsImage::new_from_buffer
new_from_buffer(buffer) ==
    IF buffer.dec THEN Ok(Image(buffer.w, buffer.h))
    ELSE Err(Error("InitializationError"))

\* ops::smartcrop_with_opts: libvips refuses an area larger than the image.
smartcrop_with_opts(img, width, height) ==
    IF width <= 0 \/ height <= 0 \/ width > img.w \/ height > img.h
    THEN Err(Error("SmartcropError"))
    ELSE Ok(Image(width, height))

\* ops::thumbnail_image(img, size): fits the image into size x size.
thumbnail_image(img, size) ==
    IF img.w >= img.h
    THEN Ok(Image(size, ScaleRound(img.h, size, img.w)))
    ELSE Ok(Image(ScaleRound(img.w, size, img.h), size))

\* ops::gravity_with_opts(img, Centre, width, height, White)
gravity_with_opts(img, width, height) == Ok(Image(width, height))

\* The quality each libvips saver accepts.
QualityAccepted(format, quality) ==
    IF format \in {"webp", "png"} THEN quality \in 0 .. 100
    ELSE quality \in 1 .. 100

\* VipsOutput: what the encoded buffer holds.
VipsOutput(format, quality, img) ==
    [format |-> format, quality |-> quality, w |-> img.w, h |-> img.h]

\* An encoder that returns with ? and marks the handle only after a
\* successful encode.
save_buffer_fn_KillOnSuccess(format, final_image, quality) ==
    [res |-> IF QualityAccepted(format, quality)
             THEN Ok(VipsOutput(format, quality, final_image))
             ELSE Err(Error("SaveBufferError")),
     kill |-> QualityAccepted(format, quality)]

\* save_buffer_fn's result: every arm encodes and then calls
\* image_set_kill(true) on the handle, whatever the encode returned.
save_buffer_fn(format, final_image, quality) ==
    [res |-> IF QualityAccepted(format, quality)
             THEN Ok(VipsOutput(format, quality, final_image))
             ELSE Err(Error("SaveBufferError")),
     kill |-> TRUE]

(* ------------------- geometry (commons, not in src/) ------------------ *)

\* commons::get_watermark_target_size
get_watermark_target_size(image_width, image_height, wm_width, wm_height, size) ==
    LET tw == ScaleRound(image_width, size, 100)
    IN Ok(<<tw, ScaleRound(wm_height, tw, wm_width)>>)

\* commons::get_watermark_borders: (left, top, right, bottom)
get_watermark_borders(image_width, image_height, wm_width, wm_height, position) ==
    LET cx == (image_width - wm_width) \div 2
        cy == (image_height - wm_height) \div 2
        left == IF position.kind = "Center" THEN cx + position.dx
                ELSE IF position.dx >= 0 THEN position.dx
                ELSE image_width - wm_width + position.dx
        top == IF position.kind = "Center" THEN cy + position.dy
               ELSE IF position.dy >= 0 THEN position.dy
               ELSE image_height - wm_height + position.dy
    IN <<left, top, image_width - wm_width - left, image_height - wm_height - top>>

(* ---------------------------- the pipeline ---------------------------- *)

NoSpec == WatermarkSpec(<<>>, 0, 0, "none", 0, 0)

\* One engine call of a pipeline run: the operation, the index of the
\* watermark buffer it works on (0: the main image), the WatermarkSpec used,
\* the buffer, the size the operation worked with (for a composite: the
\* base image's) and, for a composite, the offsets x and y.
LogEntryAt(op, i, spec, buf, w, h, x, y) ==
    [op |-> op, i |-> i, spec |-> spec, buf |-> buf, w |-> w, h |-> h,
     x |-> x, y |-> y]
LogEntry(op, i, spec, buf, w, h) == LogEntryAt(op, i, spec, buf, w, h, 0, 0)

\* The orientation test of process_image: an entry other than 0 and 1.
ExifNeedsRotation(buffer) ==
    is_some(buffer.exif) /\ unwrap(buffer.exif) # 0 /\ unwrap(buffer.exif) # 1

\* A test that looks at the rotation parameter only.
needs_rotation_RotationOnly(buffer, parameters) ==
    is_some(parameters.rotation)

needs_rotation(buffer, parameters) ==
    is_some(parameters.rotation) \/ ExifNeedsRotation(buffer)

\* The dimensions the crop test reads: (fw, fh) = (get_height(), get_width()).
CropTestDims(final_image) == <<final_image.h, final_image.w>>

\* The crop step: [res, log].
CropStep(final_image, crop) ==
    IF is_some(crop.w) /\ is_some(crop.h)
    THEN LET width == unwrap(crop.w)
             height == unwrap(crop.h)
             fw == CropTestDims(final_image)[1]
             fh == CropTestDims(final_image)[2]
         IN IF fw >= width /\ fh >= height
            THEN [res |-> smartcrop_with_opts(final_image, width, height),
                  log |-> <<LogEntry("smartcrop", 0, NoSpec, EmptyBytes, width, height)>>]
            ELSE [res |-> Ok(final_image), log |-> <<>>]
    ELSE [res |-> Ok(final_image), log |-> <<>>]

\* What the loop does when a watermark buffer does not decode: the ?
\* operator returns the error from process_image.
WatermarkDecodeFailed(acc, e) == [acc EXCEPT !.res = Err(e)]

\* The WatermarkSpec the loop pairs with the i-th buffer: watermarks[i].
WatermarkFor(watermarks, i) == watermarks[i]

\* One pass of the loop over wm_buffers, on acc = [res, log]; res holds
\* final_image.
WatermarkStep(acc, i, wm_buffer, watermarks, image_width, image_height) ==
    LET watermark == WatermarkFor(watermarks, i)
        wm == new_from_buffer(wm_buffer)
    IN IF ~wm.ok THEN WatermarkDecodeFailed(acc, wm.err)
       ELSE LET target == get_watermark_target_size(image_width, image_height,
                               wm.val.w, wm.val.h, watermark.size)
            IN IF ~target.ok THEN [acc EXCEPT !.res = Err(target.err)]
               ELSE LET borders == get_watermark_borders(image_width, image_height,
                                       target.val[1], target.val[2], watermark.position)
                    IN [res |-> Ok(acc.res.val),
                        log |-> Append(acc.log,
                                  LogEntryAt("composite", i, watermark, wm_buffer,
                                             image_width, image_height,
                                             borders[1], borders[2]))]

RECURSIVE WatermarkLoop(_, _, _, _, _, _)
WatermarkLoop(acc, i, wm_buffers, watermarks, image_width, image_height) ==
    IF i > Len(wm_buffers) \/ ~acc.res.ok THEN acc
    ELSE WatermarkLoop(
            WatermarkStep(acc, i, wm_buffers[i], watermarks, image_width, image_height),
            i + 1, wm_buffers, watermarks, image_width, image_height)

\* A square step that fits the image into the square and does not pad it.
SquareStep_ThumbnailOnly(final_image, square) ==
    IF square
    THEN LET size == Max(final_image.w, final_image.h)
         IN [res |-> thumbnail_image(final_image, size),
             log |-> <<LogEntry("square", 0, NoSpec, EmptyBytes, size, size)>>]
    ELSE [res |-> Ok(final_image), log |-> <<>>]

\* The square step: [res, log].
SquareStep(final_image, square) ==
    IF square
    THEN LET size == Max(final_image.w, final_image.h)
             th == thumbnail_image(final_image, size)
         IN IF ~th.ok THEN [res |-> th, log |-> <<>>]
            ELSE [res |-> gravity_with_opts(th.val, size, size),
                  log |-> <<LogEntry("square", 0, NoSpec, EmptyBytes, size, size)>>]
    ELSE [res |-> Ok(final_image), log |-> <<>>]

\* A pipeline that runs the watermark loop on the decoded image and crops
\* afterwards.
PipelineBody_CropLast(decoded, wm_buffers, parameters) ==
    LET looped == WatermarkLoop([res |-> Ok(decoded), log |-> <<>>], 1,
                      wm_buffers, parameters.watermarks, decoded.w, decoded.h)
    IN IF ~looped.res.ok THEN looped
       ELSE LET cropped == CropStep(looped.res.val, parameters.crop)
            IN IF ~cropped.res.ok
               THEN [res |-> cropped.res, log |-> looped.log \o cropped.log]
               ELSE LET squared == SquareStep(cropped.res.val, parameters.square)
                    IN [res |-> squared.res,
                        log |-> looped.log \o cropped.log \o squared.log]

\* The steps process_image takes between decode and encode: the crop, the
\* watermark loop and the square pad. resize_image is defined in the file
\* and never called.
PipelineBody(decoded, wm_buffers, parameters) ==
    LET cropped == CropStep(decoded, parameters.crop)
    IN IF ~cropped.res.ok THEN cropped
       ELSE LET looped == WatermarkLoop([res |-> cropped.res, log |-> cropped.log], 1,
                              wm_buffers, parameters.watermarks,
                              cropped.res.val.w, cropped.res.val.h)
            IN IF ~looped.res.ok THEN looped
               ELSE LET squared == SquareStep(looped.res.val, parameters.square)
                    IN [res |-> squared.res, log |-> looped.log \o squared.log]

PipelineResult(res, log, kill, access) ==
    [res |-> res, log |-> log, kill |-> kill, access |-> access]

\* image_processor::process_image
process_image(buffer, wm_buffers, parameters) ==
    LET access == IF ~needs_rotation(buffer, parameters) THEN "sequential" ELSE "random"
        decoded == new_from_buffer(buffer)
        dlog == <<LogEntry("decode", 0, NoSpec, buffer, buffer.w, buffer.h)>>
    IN IF ~decoded.ok THEN PipelineResult(Err(decoded.err), dlog, FALSE, access)
       ELSE LET body == PipelineBody(decoded.val, wm_buffers, parameters)
            IN IF ~body.res.ok
               THEN PipelineResult(body.res, dlog \o body.log, FALSE, access)
               ELSE LET saved == save_buffer_fn(parameters.format, body.res.val,
                                                parameters.quality)
                    IN PipelineResult(saved.res,
                           dlog \o body.log \o
                             <<LogEntry("encode", 0, NoSpec, EmptyBytes,
                                        body.res.val.w, body.res.val.h)>>,
                           saved.kill, access)

(* ------------------------------ requests ------------------------------ *)

\* The request tasks. Spec, SpecLive and SpecPipe follow one task; SpecPair
\* runs two side by side.
Reqs == {"r1", "r2"}
Solo == {"r1"}

\* The watermark specs a request of Spec may carry, one per address, each
\* with its own size, opacity and position.
WmSpecs ==
    {WatermarkSpec(LocalWm, 50, 50, "Point", 1, 1),
     WatermarkSpec(LocalBad, 40, 30, "Center", 0, 0),
     WatermarkSpec(RemoteWm, 25, 100, "Point", -1, -1)}

RECURSIVE SeqsUpTo(_, _)
SeqsUpTo(S, n) ==
    IF n = 0 THEN {<<>>}
    ELSE LET shorter == SeqsUpTo(S, n - 1)
         IN shorter \cup {Append(q, x) : q \in {t \in shorter : Len(t) = n - 1}, x \in S}

\* The watermark lists of a request of Spec: up to MaxWm specs, each
\* address named once.
WmLists ==
    {q \in SeqsUpTo(WmSpecs, MaxWm) :
        \A i, j \in DOMAIN q : q[i] = q[j] => i = j}

\* The other parameters of a request of Spec: size, format, quality,
\* rotation, crop, square.
Profile(size, format, quality, rotation, crop, square) ==
    [size |-> size, format |-> format, quality |-> quality,
     rotation |-> rotation, crop |-> crop, square |-> square]

Profiles ==
    {Profile(NoDims, "jpeg", 80, None, NoDims, FALSE),
     Profile(Dims(Some(2), Some(2)), "webp", 50, Some(90), Dims(Some(2), Some(2)), TRUE)}

IfModifiedValues ==
    {None, Some(<<"garbage">>)} \cup {Some(fmt_http_date(m)) : m \in MTimes}

Slots == 0 .. MaxWm

(* ------------------------------- state -------------------------------- *)

VARIABLES
    pc,     \* where each request task stands
    req,    \* the request a task serves: params, if_modified, locals
    fetch,  \* the get_file calls of a request: slot 0 the main image, slot i the i-th watermark
    job,    \* the closure handed to rayon::spawn
    chan,   \* the oneshot channel between the worker and the request task
    run,    \* what the worker did: the pipeline's result and the sends made
    resp,   \* the response the handler returned
    fs      \* the files under the public image root

vars == <<pc, req, fetch, job, chan, run, resp, fs>>

NoParams == ProcessImageRequest(<<>>, NoDims, "jpeg", 0, <<>>, None, NoDims, FALSE)
NoReq ==
    [query |-> "none", quality |-> 0, params |-> NoParams, if_modified |-> None,
     last_modified_header |-> None, main_img |-> EmptyBytes]

\* A get_file future: its state, its argument, its result, the body it
\* downloaded, what the network request ended with and its place in the
\* order in which the futures of the request completed.
NoFetch ==
    [st |-> "idle", resource |-> <<>>, res |-> Err(NoErr), bytes |-> EmptyBytes,
     outcome |-> "none", at |-> 0]
Called(resource) == [NoFetch EXCEPT !.st = "called", !.resource = resource]
NoFetches == [k \in Slots |-> NoFetch]

NoJob ==
    [st |-> "none", buffer |-> EmptyBytes, wm_buffers |-> <<>>,
     parameters |-> NoParams, origin |-> <<>>]
NoChan == [st |-> "none", val |-> Err(NoErr)]
NoRun ==
    [ran |-> FALSE, result |-> PipelineResult(Err(NoErr), <<>>, FALSE, "none"),
     sends |-> 0, by |-> "none"]
NoResp ==
    [status |-> 0, content_type |-> "none", last_modified |-> None,
     body |-> <<>>, error |-> NoErr]

InitFs ==
    [p \in Paths |->
        IF p = provider_filepath(LocalImg) THEN File(ImgBytes, 0)
        ELSE IF p = provider_filepath(LocalTall) THEN File(TallBytes, 1)
        ELSE IF p = provider_filepath(LocalBad) THEN File(BadBytes, 0)
        ELSE IF p = provider_filepath(LocalWm) THEN File(WmBytes, MaxMTime)
        ELSE NoFile]

Init ==
    /\ pc = [r \in Reqs |-> "idle"]
    /\ req = [r \in Reqs |-> NoReq]
    /\ fetch = [r \in Reqs |-> NoFetches]
    /\ job = [r \in Reqs |-> NoJob]
    /\ chan = [r \in Reqs |-> NoChan]
    /\ run = [r \in Reqs |-> NoRun]
    /\ resp = [r \in Reqs |-> NoResp]
    /\ fs = InitFs

\* Path::exists and the file behind a path.
FileAt(p) == IF p \in DOMAIN fs THEN fs[p] ELSE NoFile

(* ------------------------------ responses ----------------------------- *)

Response(status, content_type, last_modified, body, error) ==
    [status |-> status, content_type |-> content_type,
     last_modified |-> last_modified, body |-> body, error |-> error]

\* The Rejection of ProcessImageRequestExtractor::from_request.
Rejection == Response(400, "text/plain", None, <<"invalid query">>, Error("Rejection"))

\* StatusCode::from_u16(status).unwrap_or(BAD_REQUEST)
StatusFromU16(code) == IF code \in 100 .. 999 THEN code ELSE 400

\* ImageProcessingError::into_response: the status of each variant.
ErrorStatus(e) ==
    CASE e.kind = "ClientReturnedErrorStatusCode" -> StatusFromU16(e.code)
      [] e.kind = "LibvipsProcessingFailed" /\ e.cause = "InitializationError" -> 400
      [] e.kind = "ImageDownloadTimedOut" -> 400
      [] e.kind = "InvalidResourceUriProvided" -> 400
      [] OTHER -> 500

into_response(e) ==
    Response(ErrorStatus(e), "application/json", None, <<"error", e.kind>>, e)

(* --------------------- ProcessImageRequestExtractor ------------------- *)

\* An extractor that rejects only a query it cannot parse: a request with
\* no query string goes on to the fetch of a default image.
RejectRequest_OnlyInvalid(r) ==
    /\ pc[r] = "idle"
    /\ \E query \in {"none", "invalid"} :
          /\ req' = [req EXCEPT ![r] = [NoReq EXCEPT !.query = query]]
          /\ IF query = "none"
             THEN /\ fetch' = [fetch EXCEPT ![r][0] = Called(LocalImg)]
                  /\ pc' = [pc EXCEPT ![r] = "fetch_main"]
                  /\ resp' = resp
             ELSE /\ resp' = [resp EXCEPT ![r] = Rejection]
                  /\ pc' = [pc EXCEPT ![r] = "done"]
                  /\ fetch' = fetch
    /\ UNCHANGED <<job, chan, run, fs>>

\* from_request with no query string, or with one serde_qs rejects.
RejectRequest(r) ==
    /\ pc[r] = "idle"
    /\ \E query \in {"none", "invalid"} :
          req' = [req EXCEPT ![r] = [NoReq EXCEPT !.query = query]]
    /\ resp' = [resp EXCEPT ![r] = Rejection]
    /\ pc' = [pc EXCEPT ![r] = "done"]
    /\ UNCHANGED <<fetch, job, chan, run, fs>>

(* --------------------- routes::image::process_image ------------------- *)

\* An override that only ever lowers the quality.
OverrideQuality_OnlyLower(image_address, quality) ==
    IF ends_with_400(image_address) /\ quality > 68 THEN 68 ELSE quality

\* The quality the handler passes on.
OverrideQuality(image_address, quality) ==
    IF ends_with_400(image_address) THEN 68 ELSE quality

\* A conditional test that looks only for the header, not at its value.
NotModified_AnyHeader(path, if_modified) ==
    FileAt(path).exists /\ is_some(if_modified)

\* A conditional test that compares the header with the modification time
\* at its full precision, not cut to whole seconds.
NotModified_FullPrecision(path, if_modified) ==
    /\ FileAt(path).exists
    /\ is_some(if_modified)
    /\ unwrap(if_modified) = <<"date", FileAt(path).mtime>>

\* The test of the conditional request: the file exists and the header
\* value equals its formatted modification time.
NotModified(path, if_modified) ==
    /\ FileAt(path).exists
    /\ is_some(if_modified)
    /\ unwrap(if_modified) = fmt_http_date(FileAt(path).mtime)

\* From the extractor to the call of get_file for the main image: the
\* path, the quality override and the If-Modified-Since test.
ProcessImageStartWith(r, addrs, wmlists, profiles, if_modifieds) ==
    /\ pc[r] = "idle"
    /\ \E addr \in addrs, wms \in wmlists, prof \in profiles,
          if_modified \in if_modifieds :
          LET params == ProcessImageRequest(addr, prof.size, prof.format,
                            OverrideQuality(addr, prof.quality), wms,
                            prof.rotation, prof.crop, prof.square)
              request == [NoReq EXCEPT !.query = "valid", !.quality = prof.quality,
                                       !.params = params,
                                       !.if_modified = if_modified]
          IN /\ req' = [req EXCEPT ![r] = request]
             /\ IF starts_with_http(addr) /\ ~UrlParse(addr).ok
                THEN \* Url::parse(..).map_err(..).unwrap()
                     /\ pc' = [pc EXCEPT ![r] = "panicked"]
                     /\ UNCHANGED <<fetch, resp>>
                ELSE IF NotModified(real_filepath(addr), if_modified)
                THEN /\ resp' = [resp EXCEPT ![r] =
                                    Response(304, "none", None, <<>>, NoErr)]
                     /\ pc' = [pc EXCEPT ![r] = "done"]
                     /\ UNCHANGED fetch
                ELSE /\ fetch' = [fetch EXCEPT ![r][0] = Called(addr)]
                     /\ pc' = [pc EXCEPT ![r] = "fetch_main"]
                     /\ UNCHANGED resp
    /\ UNCHANGED <<job, chan, run, fs>>

\* A request of Spec.
ProcessImageStart(r) ==
    ProcessImageStartWith(r, MainAddrs, WmLists, Profiles, IfModifiedValues)

(* ------------------- FileImageProvider::get_file ---------------------- *)

\* The slots whose get_file future the task is polling.
Polled(r, k) ==
    \/ pc[r] = "fetch_main" /\ k = 0
    \/ pc[r] = "fetch_wm" /\ k \in 1 .. Len(req[r].params.watermarks)

Done(f, res) == [f EXCEPT !.st = "done", !.res = res]

\* The future of slot k returns res: it is the next to complete.
Completed(r, k, res) ==
    [Done(fetch[r][k], res) EXCEPT
        !.at = Cardinality({j \in Slots : fetch[r][j].st = "done"}) + 1]

\* get_file up to its first suspension: a local path is read; a remote
\* address is parsed, served from the cache when the cache file exists,
\* and requested otherwise. read_file unwraps File::open.
GetFileCall(r, k) ==
    /\ Polled(r, k)
    /\ fetch[r][k].st = "called"
    /\ LET f == fetch[r][k]
           resource == f.resource
           path == provider_filepath(resource)
       IN IF starts_with_http(resource)
          THEN IF ~UrlParse(resource).ok
               THEN /\ fetch' = [fetch EXCEPT ![r][k] =
                                    Completed(r, k, Err(InvalidResourceUriProvided(resource)))]
                    /\ pc' = pc
               ELSE IF UrlParse(resource).path # <<>> /\ FileAt(path).exists
               THEN /\ fetch' = [fetch EXCEPT ![r][k] = Completed(r, k, Ok(FileAt(path).bytes))]
                    /\ pc' = pc
               ELSE /\ fetch' = [fetch EXCEPT ![r][k].st = "sent"]
                    /\ pc' = pc
          ELSE IF FileAt(path).exists
               THEN /\ fetch' = [fetch EXCEPT ![r][k] = Completed(r, k, Ok(FileAt(path).bytes))]
                    /\ pc' = pc
               ELSE /\ pc' = [pc EXCEPT ![r] = "panicked"]
                    /\ fetch' = fetch
    /\ UNCHANGED <<req, job, chan, run, resp, fs>>

\* What client.get(url).send() and response.bytes() can end with.
FetchOutcomes == {"timeout", "transport", "status404", "status500", "body_failed", "success"}

\* A mapping with no is_timeout test: a timeout is a failed download.
FetchError_NoTimeoutCheck(outcome, resource) ==
    CASE outcome = "status404" -> ClientReturnedErrorStatusCode(404, resource)
      [] OTHER -> Error("ImageDownloadFailed")

\* The error get_file maps a failed outcome to.
FetchError(outcome, resource) ==
    CASE outcome = "timeout" -> Error("ImageDownloadTimedOut")
      [] outcome = "status404" -> ClientReturnedErrorStatusCode(404, resource)
      [] OTHER -> Error("ImageDownloadFailed")

\* The response arrives. On a success status the body is read, the
\* directories are made and File::create makes (or truncates) the cache file.
GetFileResponse(r, k) ==
    /\ Polled(r, k)
    /\ fetch[r][k].st = "sent"
    /\ LET f == fetch[r][k]
           path == provider_filepath(f.resource)
       IN \E outcome \in FetchOutcomes :
            IF outcome = "success"
            THEN \E m \in WriteTimes :
                   /\ m >= FileAt(path).mtime
                   /\ fs' = [fs EXCEPT ![path] = File(EmptyBytes, m)]
                   /\ fetch' = [fetch EXCEPT ![r][k] =
                                   [f EXCEPT !.st = "created", !.outcome = outcome,
                                             !.bytes = RemoteContent(f.resource)]]
            ELSE /\ fetch' = [fetch EXCEPT ![r][k] =
                                 [Completed(r, k, Err(FetchError(outcome, f.resource)))
                                     EXCEPT !.outcome = outcome]]
                 /\ fs' = fs
    /\ UNCHANGED <<pc, req, job, chan, run, resp>>

\* A provider that returns the bytes and leaves the cache file as
\* File::create made it.
GetFileWrite_NoPersist(r, k) ==
    /\ Polled(r, k)
    /\ fetch[r][k].st = "created"
    /\ fs' = fs
    /\ fetch' = [fetch EXCEPT ![r][k] = Completed(r, k, Ok(fetch[r][k].bytes))]
    /\ UNCHANGED <<pc, req, job, chan, run, resp>>

\* write_all and flush: the bytes reach the cache file and are returned.
GetFileWrite(r, k) ==
    /\ Polled(r, k)
    /\ fetch[r][k].st = "created"
    /\ LET f == fetch[r][k]
           path == provider_filepath(f.resource)
       IN /\ \E m \in WriteTimes :
               /\ m >= FileAt(path).mtime
               /\ fs' = [fs EXCEPT ![path] = File(f.bytes, m)]
          /\ fetch' = [fetch EXCEPT ![r][k] = Completed(r, k, Ok(f.bytes))]
    /\ UNCHANGED <<pc, req, job, chan, run, resp>>

(* --------------- process_image after the main image fetch ------------- *)

\* get_file(..).await? for the main image, get_metadata(..).unwrap() and
\* the creation of the watermark futures.
ProcessImageMainFetched(r) ==
    /\ pc[r] = "fetch_main"
    /\ fetch[r][0].st = "done"
    /\ LET res == fetch[r][0].res
           path == real_filepath(req[r].params.image_address)
           n == Len(req[r].params.watermarks)
       IN IF ~res.ok
          THEN /\ resp' = [resp EXCEPT ![r] = into_response(res.err)]
               /\ pc' = [pc EXCEPT ![r] = "done"]
               /\ UNCHANGED <<req, fetch>>
          ELSE IF ~FileAt(path).exists
          THEN \* fs::metadata(..).expect(..)
               /\ pc' = [pc EXCEPT ![r] = "panicked"]
               /\ UNCHANGED <<req, fetch, resp>>
          ELSE /\ req' = [req EXCEPT ![r].main_img = res.val,
                                     ![r].last_modified_header =
                                         Some(fmt_http_date(FileAt(path).mtime))]
               /\ fetch' = [fetch EXCEPT ![r] =
                               [k \in Slots |->
                                   IF k \in 1 .. n
                                   THEN Called(req[r].params.watermarks[k].image_address)
                                   ELSE fetch[r][k]]]
               /\ pc' = [pc EXCEPT ![r] = "fetch_wm"]
               /\ resp' = resp
    /\ UNCHANGED <<job, chan, run, fs>>

\* A fetch phase that ends with the first watermark's result, as a
\* select over the futures would.
FetchPhaseComplete_First(r) ==
    Len(req[r].params.watermarks) > 0 => fetch[r][1].st = "done"

\* join_all has every result, in the order of the list.
FetchPhaseComplete(r) ==
    \A k \in 1 .. Len(req[r].params.watermarks) : fetch[r][k].st = "done"

\* The indices of the watermark fetches that returned bytes, in the order
\* in which the fetches completed, as a FuturesUnordered would give them.
OkIndices_CompletionOrder(r) ==
    LET ok == {k \in 1 .. Len(req[r].params.watermarks) : fetch[r][k].res.ok}
        rank(k) == Cardinality({j \in ok : fetch[r][j].at <= fetch[r][k].at})
    IN [p \in 1 .. Cardinality(ok) |-> CHOOSE k \in ok : rank(k) = p]

\* The indices of the watermark fetches that returned bytes, in order.
OkIndices(r) ==
    SelectSeq([k \in 1 .. Len(req[r].params.watermarks) |-> k],
              LAMBDA k : fetch[r][k].res.ok)

\* filter(is_ok).map(unwrap).collect(): the bytes of the fetches that
\* succeeded, in order.
CollectWatermarks(r) ==
    [j \in 1 .. Len(OkIndices(r)) |-> fetch[r][OkIndices(r)[j]].res.val]

\* A handler that applies ? to each watermark result: the first error
\* is the request's answer.
ProcessImageSubmit_AbortOnError(r) ==
    /\ pc[r] = "fetch_wm"
    /\ \A k \in 1 .. Len(req[r].params.watermarks) : fetch[r][k].st = "done"
    /\ IF \E k \in 1 .. Len(req[r].params.watermarks) : ~fetch[r][k].res.ok
       THEN LET k == CHOOSE j \in 1 .. Len(req[r].params.watermarks) :
                        ~fetch[r][j].res.ok
            IN /\ resp' = [resp EXCEPT ![r] = into_response(fetch[r][k].res.err)]
               /\ pc' = [pc EXCEPT ![r] = "done"]
               /\ UNCHANGED <<job, chan>>
       ELSE /\ job' = [job EXCEPT ![r] =
                         [st |-> "queued", buffer |-> req[r].main_img,
                          wm_buffers |-> [j \in 1 .. Len(req[r].params.watermarks) |->
                                             fetch[r][j].res.val],
                          parameters |-> req[r].params,
                          origin |-> [j \in 1 .. Len(req[r].params.watermarks) |-> j]]]
            /\ chan' = [chan EXCEPT ![r] = [NoChan EXCEPT !.st = "open"]]
            /\ pc' = [pc EXCEPT ![r] = "awaiting"]
            /\ resp' = resp
    /\ UNCHANGED <<req, fetch, run, fs>>

\* The end of the fetch phase: the watermark results are filtered, the
\* channel is made and the closure is handed to rayon::spawn.
ProcessImageSubmit(r) ==
    /\ pc[r] = "fetch_wm"
    /\ FetchPhaseComplete(r)
    /\ job' = [job EXCEPT ![r] =
                  [st |-> "queued", buffer |-> req[r].main_img,
                   wm_buffers |-> CollectWatermarks(r),
                   parameters |-> req[r].params, origin |-> OkIndices(r)]]
    /\ chan' = [chan EXCEPT ![r] = [NoChan EXCEPT !.st = "open"]]
    /\ pc' = [pc EXCEPT ![r] = "awaiting"]
    /\ UNCHANGED <<req, fetch, run, resp, fs>>

(* ------------------------------ the worker ---------------------------- *)

\* What send.send(image) leaves in the channel: the value, or nothing when
\* the receiver is gone (send returns Err(image), which the closure drops).
Send(c, image) == IF c.st = "rx_dropped" THEN c ELSE [st |-> "sent", val |-> image]

\* A closure that sends only a pipeline result that is Ok.
WorkerRun_SendOnlyOk(r) ==
    /\ job[r].st = "queued"
    /\ LET result == process_image(job[r].buffer, job[r].wm_buffers, job[r].parameters)
       IN /\ run' = [run EXCEPT ![r] =
                        [ran |-> TRUE, result |-> result,
                         sends |-> IF result.res.ok THEN run[r].sends + 1 ELSE run[r].sends,
                         by |-> "worker"]]
          /\ chan' = [chan EXCEPT ![r] =
                         IF result.res.ok THEN Send(chan[r], result.res) ELSE chan[r]]
    /\ job' = [job EXCEPT ![r].st = "finished"]
    /\ UNCHANGED <<pc, req, fetch, resp, fs>>

\* A closure that unwraps the send: with the receiver gone it unwinds
\* after the pipeline.
WorkerRun_UnwrapSend(r) ==
    /\ job[r].st = "queued"
    /\ LET result == process_image(job[r].buffer, job[r].wm_buffers, job[r].parameters)
       IN /\ run' = [run EXCEPT ![r] =
                        [ran |-> TRUE, result |-> result,
                         sends |-> run[r].sends + 1, by |-> "worker"]]
          /\ chan' = [chan EXCEPT ![r] = Send(chan[r], result.res)]
    /\ job' = [job EXCEPT ![r].st =
                  IF chan[r].st = "rx_dropped" THEN "dropped" ELSE "finished"]
    /\ UNCHANGED <<pc, req, fetch, resp, fs>>

\* The closure on a rayon thread: the pipeline, then one send.
WorkerRun(r) ==
    /\ job[r].st = "queued"
    /\ LET result == process_image(job[r].buffer, job[r].wm_buffers, job[r].parameters)
       IN /\ run' = [run EXCEPT ![r] =
                        [ran |-> TRUE, result |-> result,
                         sends |-> run[r].sends + 1, by |-> "worker"]]
          /\ chan' = [chan EXCEPT ![r] = Send(chan[r], result.res)]
    /\ job' = [job EXCEPT ![r].st = "finished"]
    /\ UNCHANGED <<pc, req, fetch, resp, fs>>

\* The closure unwinds before it sends: the sender is dropped.
WorkerDropped(r) ==
    /\ job[r].st = "queued"
    /\ chan' = [chan EXCEPT ![r].st =
                    IF chan[r].st = "rx_dropped" THEN "rx_dropped" ELSE "closed"]
    /\ job' = [job EXCEPT ![r].st = "dropped"]
    /\ UNCHANGED <<pc, req, fetch, run, resp, fs>>

(* ------------------- process_image after recv.await ------------------- *)

\* Both map_err give the worker error.
Received_Conflated(c) ==
    IF c.st = "closed" \/ ~c.val.ok THEN Err(Error("ProcessingWorkerJoinError"))
    ELSE Ok(c.val.val)

\* The value of recv.await with both map_err applied.
Received(c) ==
    IF c.st = "closed" THEN Err(Error("ProcessingWorkerJoinError"))
    ELSE IF ~c.val.ok THEN Err(LibvipsProcessingFailed(c.val.err))
    ELSE Ok(c.val.val)

\* A task that is woken by a sent result only, never by a closed channel.
ProcessImageResume_OnlySent(r) ==
    /\ pc[r] = "awaiting"
    /\ chan[r].st = "sent"
    /\ resp' = [resp EXCEPT ![r] =
                  IF ~chan[r].val.ok
                  THEN into_response(LibvipsProcessingFailed(chan[r].val.err))
                  ELSE Response(200, <<"image/", req[r].params.format>>,
                                req[r].last_modified_header, chan[r].val.val, NoErr)]
    /\ chan' = [chan EXCEPT ![r].st = "received"]
    /\ pc' = [pc EXCEPT ![r] = "done"]
    /\ UNCHANGED <<req, fetch, job, run, fs>>

\* A handler that answers every image as image/jpeg.
ProcessImageResume_FixedType(r) ==
    /\ pc[r] = "awaiting"
    /\ chan[r].st \in {"sent", "closed"}
    /\ LET processed_image == Received(chan[r])
       IN resp' = [resp EXCEPT ![r] =
                      IF ~processed_image.ok THEN into_response(processed_image.err)
                      ELSE Response(200, <<"image/", "jpeg">>,
                                    req[r].last_modified_header,
                                    processed_image.val, NoErr)]
    /\ chan' = [chan EXCEPT ![r].st = "received"]
    /\ pc' = [pc EXCEPT ![r] = "done"]
    /\ UNCHANGED <<req, fetch, job, run, fs>>

\* The task resumes and answers.
ProcessImageResume(r) ==
    /\ pc[r] = "awaiting"
    /\ chan[r].st \in {"sent", "closed"}
    /\ LET processed_image == Received(chan[r])
       IN resp' = [resp EXCEPT ![r] =
                      IF ~processed_image.ok THEN into_response(processed_image.err)
                      ELSE Response(200, <<"image/", req[r].params.format>>,
                                    req[r].last_modified_header,
                                    processed_image.val, NoErr)]
    /\ chan' = [chan EXCEPT ![r].st = "received"]
    /\ pc' = [pc EXCEPT ![r] = "done"]
    /\ UNCHANGED <<req, fetch, job, run, fs>>

\* The connection takes the next request.
NextRequest(r) ==
    /\ pc[r] \in {"done", "panicked"}
    /\ pc' = [pc EXCEPT ![r] = "idle"]
    /\ req' = [req EXCEPT ![r] = NoReq]
    /\ fetch' = [fetch EXCEPT ![r] = NoFetches]
    /\ job' = [job EXCEPT ![r] = NoJob]
    /\ chan' = [chan EXCEPT ![r] = NoChan]
    /\ run' = [run EXCEPT ![r] = NoRun]
    /\ resp' = [resp EXCEPT ![r] = NoResp]
    /\ fs' = fs

Next ==
    \E r \in Solo :
        \/ RejectRequest(r)
        \/ ProcessImageStart(r)
        \/ \E k \in Slots : GetFileCall(r, k)
        \/ \E k \in Slots : GetFileResponse(r, k)
        \/ \E k \in Slots : GetFileWrite(r, k)
        \/ ProcessImageMainFetched(r)
        \/ ProcessImageSubmit(r)
        \/ WorkerRun(r)
        \/ WorkerDropped(r)
        \/ ProcessImageResume(r)
        \/ NextRequest(r)

Spec == Init /\ [][Next]_vars

(* --------------------- the pipeline on its own ------------------------ *)

\* The inputs of SpecPipe: any source image up to MaxDim x MaxDim or bytes
\* that do not decode, any crop box, a few sizes, formats and qualities,
\* and at most one watermark.
PipeBuffers ==
    {Bytes("src", TRUE, w, h, e) :
        w \in 1 .. MaxDim, h \in 1 .. MaxDim, e \in {None, Some(0), Some(1), Some(6)}}
    \cup {BadBytes}
PipeSides == {None} \cup {Some(n) : n \in 1 .. MaxDim}
PipeCrops == {Dims(w, h) : w \in PipeSides, h \in PipeSides}
PipeSizes == {NoDims, Dims(Some(1), None), Dims(Some(2), Some(2))}
PipeEncodings == {<<"jpeg", 80>>, <<"webp", 0>>, <<"heic", 0>>, <<"png", 68>>}
PipeWatermarks == {<<>>, <<WmBytes>>, <<BadBytes>>}

InitPipe ==
    /\ pc = [r \in Reqs |-> IF r \in Solo THEN "awaiting" ELSE "idle"]
    /\ fetch = [r \in Reqs |-> NoFetches]
    /\ chan = [r \in Reqs |-> IF r \in Solo THEN [NoChan EXCEPT !.st = "open"] ELSE NoChan]
    /\ run = [r \in Reqs |-> NoRun]
    /\ resp = [r \in Reqs |-> NoResp]
    /\ fs = InitFs
    /\ \E buffer \in PipeBuffers, wm_buffers \in PipeWatermarks, crop \in PipeCrops,
          size \in PipeSizes, enc \in PipeEncodings, square \in BOOLEAN,
          rotation \in {None, Some(90)} :
          LET watermarks == [j \in 1 .. Len(wm_buffers) |->
                                WatermarkSpec(LocalWm, 50, 50, "Point", 0, 0)]
              params == ProcessImageRequest(LocalImg, size, enc[1], enc[2],
                            watermarks, rotation, crop, square)
          IN /\ req = [r \in Reqs |->
                          IF r \in Solo
                          THEN [NoReq EXCEPT !.query = "valid", !.quality = enc[2],
                                             !.params = params,
                                             !.main_img = buffer,
                                             !.last_modified_header = Some(fmt_http_date(0))]
                          ELSE NoReq]
             /\ job = [r \in Reqs |->
                          IF r \in Solo
                          THEN [st |-> "queued", buffer |-> buffer,
                                wm_buffers |-> wm_buffers, parameters |-> params,
                                origin |-> [j \in 1 .. Len(wm_buffers) |-> j]]
                          ELSE NoJob]

NextPipe == \E r \in Solo : WorkerRun(r) \/ ProcessImageResume(r)

SpecPipe == InitPipe /\ [][NextPipe]_vars

(* The worker and the request task are scheduled fairly: a closure handed *)
(* to rayon::spawn is run, and a task whose channel is ready is polled.   *)
Fairness ==
    \A r \in Reqs :
        /\ WF_vars(WorkerRun(r) \/ WorkerDropped(r))
        /\ WF_vars(ProcessImageResume(r))

\* The requests of SpecLive: a local, an undecodable and a remote main
\* image, with no watermark, a local one or a remote one.
LiveAddrs == {LocalImg, LocalBad, RemoteImg}
LiveWmLists ==
    {<<>>, <<WatermarkSpec(LocalWm, 50, 50, "Point", 1, 1)>>,
     <<WatermarkSpec(RemoteWm, 25, 100, "Point", -1, -1)>>}
LiveProfiles == {Profile(NoDims, "jpeg", 80, None, NoDims, FALSE)}

NextLive ==
    \E r \in Solo :
        \/ ProcessImageStartWith(r, LiveAddrs, LiveWmLists, LiveProfiles, {None})
        \/ \E k \in Slots : GetFileCall(r, k)
        \/ \E k \in Slots : GetFileResponse(r, k)
        \/ \E k \in Slots : GetFileWrite(r, k)
        \/ ProcessImageMainFetched(r)
        \/ ProcessImageSubmit(r)
        \/ WorkerRun(r)
        \/ WorkerDropped(r)
        \/ ProcessImageResume(r)
        \/ NextRequest(r)

SpecLive == Init /\ [][NextLive]_vars /\ Fairness

(* --------------------------- two requests ----------------------------- *)

\* The client of a request that waits for its worker goes away: the task
\* is dropped and with it the receiving end of the channel and whatever
\* the channel holds.
ClientDisconnect(r) ==
    /\ pc[r] = "awaiting"
    /\ pc' = [pc EXCEPT ![r] = "gone"]
    /\ chan' = [chan EXCEPT ![r] = [NoChan EXCEPT !.st = "rx_dropped"]]
    /\ UNCHANGED <<req, fetch, job, run, resp, fs>>

\* The requests of SpecPair: a local and a remote main image, no
\* watermark, any profile and any If-Modified-Since value.
PairAddrs == {LocalTall, RemoteImg}

NextPair ==
    \E r \in Reqs :
        \/ ProcessImageStartWith(r, PairAddrs, {<<>>}, Profiles, IfModifiedValues)
        \/ \E k \in Slots : GetFileCall(r, k)
        \/ \E k \in Slots : GetFileResponse(r, k)
        \/ \E k \in Slots : GetFileWrite(r, k)
        \/ ProcessImageMainFetched(r)
        \/ ProcessImageSubmit(r)
        \/ WorkerRun(r)
        \/ WorkerDropped(r)
        \/ ClientDisconnect(r)
        \/ ProcessImageResume(r)

SpecPair == Init /\ [][NextPair]_vars

(* ------------------------------- claims ------------------------------- *)

\* The composite steps of a pipeline run.
Composites(r) ==
    SelectSeq(run[r].result.log, LAMBDA e : e.op = "composite")

HasOp(r, op) == \E n \in DOMAIN run[r].result.log : run[r].result.log[n].op = op

ReachedEncode(r) == HasOp(r, "encode")

\* C1: every watermark buffer the pipeline composites is processed with the
\* WatermarkSpec of the list entry it was fetched for (job.origin holds, for
\* each buffer handed over, the index of that entry).
C1_BufferPairedWithOwnSpec ==
    \A r \in Reqs :
        run[r].ran =>
            \A n \in DOMAIN Composites(r) :
                LET e == Composites(r)[n]
                IN e.spec = job[r].parameters.watermarks[job[r].origin[e.i]]

\* The errors get_file returns.
FetchErrorKinds ==
    {"InvalidResourceUriProvided", "ImageDownloadTimedOut",
     "ClientReturnedErrorStatusCode", "ImageDownloadFailed"}

SomeWatermarkFetchFailed(r) ==
    \E k \in 1 .. Len(req[r].params.watermarks) :
        fetch[r][k].st = "done" /\ ~fetch[r][k].res.ok

C3_UndecodableWatermarkSkipped ==
    \A r \in Reqs :
        (run[r].ran /\ process_image(job[r].buffer, <<>>, job[r].parameters).res.ok)
            => run[r].result.res.ok /\ ReachedEncode(r)

\* Both crop sides are set and neither exceeds the source.
SmartcropEligible(buffer, crop) ==
    /\ is_some(crop.w)
    /\ is_some(crop.h)
    /\ unwrap(crop.w) <= buffer.w
    /\ unwrap(crop.h) <= buffer.h

\* C4: the crop is applied exactly when both crop sides are set and fit
\* the source; otherwise the image is not cropped and the run does not
\* fail in the crop.
C4_CropIffEligible ==
    \A r \in Reqs :
        (run[r].ran /\ job[r].buffer.dec) =>
            /\ HasOp(r, "smartcrop") <=> SmartcropEligible(job[r].buffer, job[r].parameters.crop)
            /\ run[r].result.res.err.kind # "SmartcropError"

\* C5: a run with a Size resizes before it encodes. With only the width
\* set (and no crop or square pad after it) the output has the requested
\* width and the height that keeps the aspect ratio; with both sides set to
\* the same value on a square source the output is that square.
C5_SizeResizes ==
    \A r \in Reqs :
        LET p == job[r].parameters
            src == job[r].buffer
            out == run[r].result.res.val
        IN (run[r].ran /\ run[r].result.res.ok /\ p.crop = NoDims /\ ~p.square) =>
            /\ (is_some(p.size.w) /\ ~is_some(p.size.h)) =>
                  /\ out.w = unwrap(p.size.w)
                  /\ out.h = ScaleRound(src.h, unwrap(p.size.w), src.w)
                  /\ unwrap(p.size.w) # src.w => HasOp(r, "resize")
            /\ (is_some(p.size.w) /\ p.size.h = p.size.w /\ src.w = src.h) =>
                  /\ out.w = unwrap(p.size.w)
                  /\ out.h = unwrap(p.size.w)

\* The request did nothing but answer.
NothingDone(r) ==
    /\ \A k \in Slots : fetch[r][k].st = "idle"
    /\ job[r].st = "none"
    /\ chan[r].st = "none"
    /\ ~run[r].ran

\* The If-Modified-Since value equals the formatted modification time of
\* the existing file at the main image's path.
IfModifiedMatches(r) ==
    LET path == provider_filepath(req[r].params.image_address)
    IN /\ FileAt(path).exists
       /\ req[r].if_modified = Some(<<"date", FileAt(path).mtime \div TicksPerSec>>)

\* C6: a request whose If-Modified-Since value equals the file's
\* last-modified value is answered 304 with an empty body before any fetch,
\* submission or decode; a request that went on to fetch had no such value.
C6_NotModifiedShortCircuit ==
    \A r \in Reqs :
        /\ resp[r].status = 304 =>
              /\ resp[r].body = <<>>
              /\ NothingDone(r)
              /\ IfModifiedMatches(r)
        /\ (pc[r] = "fetch_main" /\ fetch[r][0].st = "called") => ~IfModifiedMatches(r)

C6_Witness ==
    \E r \in Reqs : resp[r].status = 304 /\ pc[r] = "done"

\* C7: a worker that ran the pipeline to its end published exactly one
\* result, the pipeline's; no worker publishes twice, and none publishes
\* before it ran.
C7_ExactlyOneResult ==
    \A r \in Reqs :
        /\ run[r].sends <= 1
        /\ job[r].st = "queued" => run[r].sends = 0 /\ chan[r].st = "open"
        /\ job[r].st = "finished" =>
              /\ run[r].ran
              /\ run[r].sends = 1
              /\ chan[r].st \in {"sent", "received"}
              /\ chan[r].val = run[r].result.res

\* C7's case: a worker finished a run that failed and published it.
C7_Witness ==
    \E r \in Reqs :
        /\ job[r].st = "finished"
        /\ run[r].sends = 1
        /\ ~run[r].result.res.ok
        /\ chan[r].st = "sent"

\* C8: under fair scheduling every request that submitted work resumes
\* and answers; the answer is the worker's result, it is given once, and
\* only the worker runs the pipeline.
C8_SubmittedRequestAnswers ==
    /\ \A r \in Reqs : (pc[r] = "awaiting") ~> (pc[r] = "done" /\ resp[r] # NoResp)
    /\ [](\A r \in Reqs :
            /\ run[r].ran => run[r].by = "worker" /\ pc[r] \in {"awaiting", "done"}
            /\ (pc[r] = "done" /\ job[r].st = "finished") =>
                  IF run[r].result.res.ok
                  THEN resp[r].status = 200 /\ resp[r].body = run[r].result.res.val
                  ELSE resp[r].error = LibvipsProcessingFailed(run[r].result.res.err))
    /\ [][\A r \in Reqs : resp[r] # NoResp => (resp'[r] = resp[r] \/ pc'[r] = "idle")]_vars

C8_Witness ==
    \E r \in Reqs :
        /\ pc[r] = "done"
        /\ job[r].st = "finished"
        /\ resp[r].status = 200

\* C9: a channel closed without a result gives ProcessingWorkerJoinError, a
\* failed pipeline gives LibvipsProcessingFailed, and neither is reported
\* as the other.
C9_WorkerErrorDistinct ==
    \A r \in Reqs :
        /\ (pc[r] = "done" /\ job[r].st = "dropped") =>
              resp[r].error = Error("ProcessingWorkerJoinError")
        /\ (pc[r] = "done" /\ job[r].st = "finished" /\ ~run[r].result.res.ok) =>
              resp[r].error.kind = "LibvipsProcessingFailed"
        /\ resp[r].error.kind = "ProcessingWorkerJoinError" => job[r].st = "dropped"
        /\ resp[r].error.kind = "LibvipsProcessingFailed" =>
              job[r].st = "finished" /\ ~run[r].result.res.ok

C9_Witness ==
    \E r \in Reqs :
        /\ job[r].st = "dropped"
        /\ resp[r].error.kind = "ProcessingWorkerJoinError"

\* C10: when the work is submitted the main image fetch and every
\* watermark fetch have returned, and the worker's run touches neither a
\* fetch nor a file.
C10_FetchPhaseBeforeSubmit ==
    /\ [](\A r \in Reqs :
            job[r].st # "none" =>
                /\ fetch[r][0].st = "done"
                /\ \A k \in 1 .. Len(req[r].params.watermarks) : fetch[r][k].st = "done")
    /\ [][\A r \in Reqs :
            (job[r].st = "queued" /\ job'[r].st # "queued") => (fs' = fs /\ fetch' = fetch)]_vars

\* C10's case: work was submitted after two watermark fetches, one of
\* which went to the network.
C10_Witness ==
    \E r \in Reqs :
        /\ job[r].st = "queued"
        /\ Len(req[r].params.watermarks) = 2
        /\ \E k \in 1 .. 2 : fetch[r][k].resource = RemoteWm /\ fetch[r][k].res.ok

\* C11: the watermarks a run composites are the fetched buffers of list
\* entries in increasing list position, whatever the order in which the
\* fetches completed (fetch.at is the place of a fetch in that order).
C11_CompositeInListOrder ==
    \A r \in Reqs :
        run[r].ran =>
            LET c == Composites(r)
            IN /\ \A n \in DOMAIN c :
                     c[n].buf = fetch[r][job[r].origin[c[n].i]].res.val
               /\ \A n, m \in DOMAIN c :
                     n < m => job[r].origin[c[n].i] < job[r].origin[c[m].i]

\* C11's case: two watermarks were composited and the fetch of the one
\* listed first completed after the fetch of the one listed second.
C11_Witness ==
    \E r \in Reqs :
        /\ run[r].ran
        /\ Len(Composites(r)) = 2
        /\ fetch[r][job[r].origin[Composites(r)[1].i]].at
              > fetch[r][job[r].origin[Composites(r)[2].i]].at

\* The main image was not obtained: its fetch returned an error, or it is
\* a local path with no file behind it and get_file was called for it.
MainImageNotObtained(r) ==
    LET addr == req[r].params.image_address
    IN \/ fetch[r][0].st = "done" /\ ~fetch[r][0].res.ok
       \/ /\ fetch[r][0].st # "idle"
          /\ ~starts_with_http(addr)
          /\ ~FileAt(provider_filepath(addr)).exists

\* C12: once get_file has failed to obtain the main image the request ends
\* with an error response, no watermark is fetched and nothing is
\* submitted; a main image that does not decode makes the run fail before
\* it encodes.
C12_MainImageFailureFatal ==
    \A r \in Reqs :
        /\ (MainImageNotObtained(r) /\ pc[r] # "fetch_main") =>
              /\ pc[r] = "done"
              /\ resp[r].error # NoErr
              /\ resp[r].status >= 400
              /\ \A k \in 1 .. MaxWm : fetch[r][k].st = "idle"
              /\ job[r].st = "none"
        /\ (run[r].ran /\ ~job[r].buffer.dec) =>
              ~run[r].result.res.ok /\ ~ReachedEncode(r)

\* C13: each step of get_file on a remote address: with the cache file
\* present the call returns the file's bytes, makes no request and leaves
\* the files alone; with none it sends the request; a fetch that succeeds
\* returns the remote bytes and leaves them in the cache file; a fetch that
\* fails leaves the files alone.
C13_CacheThenFetch ==
    [][\A r \in Reqs : \A k \in Slots :
          LET f == fetch[r][k]
              g == fetch'[r][k]
              path == provider_filepath(f.resource)
          IN (starts_with_http(f.resource) /\ UrlParse(f.resource).ok
                /\ g # f /\ pc'[r] # "idle") =>
                /\ (f.st = "called" /\ fs[path].exists) =>
                      /\ g.st = "done"
                      /\ g.res = Ok(fs[path].bytes)
                      /\ g.outcome = "none"
                      /\ fs' = fs
                /\ (f.st = "called" /\ ~fs[path].exists) =>
                      g.st = "sent" /\ fs' = fs
                /\ (f.st # "called" /\ g.st = "done" /\ g.res.ok) =>
                      /\ g.outcome = "success"
                      /\ g.res.val = RemoteContent(f.resource)
                      /\ fs'[path].exists
                      /\ fs'[path].bytes = g.res.val
                /\ (g.st = "done" /\ ~g.res.ok) => fs' = fs]_vars

\* C13's case: a call was served from the cache file, with no request,
\* and the bytes are those an earlier fetch wrote there.
C13_Witness ==
    \E r \in Reqs : \E k \in Slots :
        /\ fetch[r][k].st = "done"
        /\ starts_with_http(fetch[r][k].resource)
        /\ fetch[r][k].outcome = "none"
        /\ fetch[r][k].res = Ok(RemoteContent(fetch[r][k].resource))

\* C14: a request that timed out returns ImageDownloadTimedOut, any other
\* transport error ImageDownloadFailed, a 4xx status
\* ClientReturnedErrorStatusCode with the status and the resource, any
\* other non-success status ImageDownloadFailed; a call that went to the
\* network returns bytes only after a success status.
C14_FetchErrorMapping ==
    \A r \in Reqs : \A k \in Slots :
        LET f == fetch[r][k]
        IN f.st = "done" =>
            /\ f.outcome = "timeout" => f.res = Err(Error("ImageDownloadTimedOut"))
            /\ f.outcome = "transport" => f.res = Err(Error("ImageDownloadFailed"))
            /\ f.outcome = "status404" =>
                  /\ ~f.res.ok
                  /\ f.res.err.kind = "ClientReturnedErrorStatusCode"
                  /\ f.res.err.code = 404
                  /\ f.res.err.resource = f.resource
            /\ f.outcome = "status500" => f.res = Err(Error("ImageDownloadFailed"))
            /\ (f.res.ok /\ f.outcome # "none") => f.outcome = "success"

\* C14's case: a request to the network timed out and its get_file
\* returned ImageDownloadTimedOut.
C14_Witness ==
    \E r \in Reqs : \E k \in Slots :
        /\ fetch[r][k].st = "done"
        /\ fetch[r][k].outcome = "timeout"
        /\ fetch[r][k].res.err.kind = "ImageDownloadTimedOut"

\* The errors the claim counts as caused by the client: a rejected query, a
\* resource that could not be fetched, an image the engine could not decode
\* or encode.
ClientCaused(e) ==
    \/ e.kind \in {"Rejection"} \cup FetchErrorKinds
    \/ e.kind = "LibvipsProcessingFailed"
          /\ e.cause \in {"InitializationError", "SaveBufferError"}

\* C15: an error response has a 4xx status when the error is caused by the
\* client and a 5xx status when the worker failed.
C15_StatusByKind ==
    \A r \in Reqs :
        resp[r].error # NoErr =>
            /\ ClientCaused(resp[r].error) => resp[r].status \in 400 .. 499
            /\ resp[r].error.kind = "ProcessingWorkerJoinError" =>
                  resp[r].status \in 500 .. 599

\* C16: a request whose main image address starts with http:// or https://
\* and does not parse as a URL ends with the invalid-resource-URI error
\* response; its task does not panic, sends no request and submits nothing.
C16_BadUrlAnswered ==
    \A r \in Reqs :
        LET addr == req[r].params.image_address
        IN (req[r].query = "valid" /\ starts_with_http(addr) /\ ~UrlParse(addr).ok) =>
            /\ pc[r] # "panicked"
            /\ pc[r] = "done" =>
                  /\ resp[r].error.kind = "InvalidResourceUriProvided"
                  /\ resp[r].status \in 400 .. 499
            /\ \A k \in Slots : fetch[r][k].st \notin {"sent", "created"}
            /\ job[r].st = "none"

C18_AccessMode ==
    \A r \in Reqs :
        run[r].ran =>
            LET exif == job[r].buffer.exif
                plain == /\ job[r].parameters.rotation = None
                         /\ (exif = None \/ exif = Some(0) \/ exif = Some(1))
            IN /\ plain => run[r].result.access = "sequential"
               /\ ~plain => run[r].result.access = "random"

\* C18's case: a source with EXIF orientation 6 and no rotation parameter
\* was decoded in random access.
C18_Witness ==
    \E r \in Reqs :
        /\ run[r].ran
        /\ job[r].parameters.rotation = None
        /\ job[r].buffer.exif = Some(6)
        /\ run[r].result.res.ok
        /\ run[r].result.access = "random"

\* C19: a run with rotation 90 on a source without an EXIF orientation
\* (and no size, crop or square pad) gives the source's dimensions swapped.
C19_RotationApplied ==
    \A r \in Reqs :
        LET p == job[r].parameters
            src == job[r].buffer
            out == run[r].result.res.val
        IN (run[r].ran /\ run[r].result.res.ok /\ p.rotation = Some(90)
              /\ src.exif = None /\ p.size = NoDims /\ p.crop = NoDims /\ ~p.square) =>
            /\ out.w = src.h
            /\ out.h = src.w

\* The working image before the square step: the crop box when the run
\* cropped, the source otherwise (a composite keeps the base's size).
BeforeSquare(r) ==
    IF HasOp(r, "smartcrop")
    THEN Image(unwrap(job[r].parameters.crop.w), unwrap(job[r].parameters.crop.h))
    ELSE Image(job[r].buffer.w, job[r].buffer.h)

\* C20: with square set the encoded image is as wide as it is high, the
\* larger side of the working image after crop and watermarks; without it
\* the encoded image has the working image's dimensions.
C20_SquarePad ==
    \A r \in Reqs :
        LET out == run[r].result.res.val
            pre == BeforeSquare(r)
        IN (run[r].ran /\ run[r].result.res.ok) =>
            IF job[r].parameters.square
            THEN /\ out.w = Max(pre.w, pre.h)
                 /\ out.h = Max(pre.w, pre.h)
                 /\ HasOp(r, "square")
            ELSE /\ out.w = pre.w
                 /\ out.h = pre.h
                 /\ ~HasOp(r, "square")

\* C20's case: a source that is not square was encoded with square set.
C20_Witness ==
    \E r \in Reqs :
        /\ run[r].ran
        /\ run[r].result.res.ok
        /\ job[r].parameters.square
        /\ job[r].buffer.w # job[r].buffer.h
        /\ run[r].result.res.val.w = run[r].result.res.val.h

\* A request with no size, crop, watermark, rotation or square.
PlainRequest(p) ==
    /\ p.size = NoDims
    /\ p.crop = NoDims
    /\ p.watermarks = <<>>
    /\ p.rotation = None
    /\ ~p.square

\* C21: a 200 response has Content-Type image/<requested format> and a
\* Last-Modified value that is the modification time, in whole seconds, of
\* the file at the main image's path; for a request with no size, crop,
\* watermark, rotation or square the image has the source's dimensions.
C21_OkResponseHeaders ==
    \A r \in Reqs :
        resp[r].status = 200 =>
            LET p == req[r].params
                src == fetch[r][0].res.val
                file == FileAt(provider_filepath(p.image_address))
            IN /\ resp[r].content_type = <<"image/", p.format>>
               /\ file.exists
               /\ resp[r].last_modified = Some(<<"date", file.mtime \div TicksPerSec>>)
               /\ PlainRequest(p) =>
                     /\ resp[r].body.w = src.w
                     /\ resp[r].body.h = src.h

\* C21's case: a request with a crop and a square pad was answered 200 in
\* a format other than jpeg.
C21_Witness ==
    \E r \in Reqs :
        /\ resp[r].status = 200
        /\ req[r].params.format = "webp"
        /\ is_some(resp[r].last_modified)

\* C22: the closure of a request whose client went away stays queued until
\* the worker takes it; the worker runs the pipeline to its end; its send
\* leaves the channel as it was and the worker finishes normally; the
\* request is never answered; and the worker's step changes nothing of any
\* other request and no file.
C22_DisconnectedWorkerCompletes ==
    /\ [](\A r \in Reqs :
            pc[r] = "gone" =>
                /\ resp[r] = NoResp
                /\ chan[r] = [NoChan EXCEPT !.st = "rx_dropped"]
                /\ (job[r].st # "queued" /\ run[r].ran) =>
                      /\ job[r].st = "finished"
                      /\ run[r].sends = 1
                      /\ run[r].result =
                            process_image(job[r].buffer, job[r].wm_buffers,
                                          job[r].parameters))
    /\ [][\A r \in Reqs :
            (pc[r] = "gone" /\ job[r].st = "queued" /\ job'[r].st # "queued") =>
                /\ job'[r].st \in {"finished", "dropped"}
                /\ job'[r].st = "finished" => run'[r].ran
                /\ pc'[r] = "gone"
                /\ fs' = fs
                /\ \A q \in Reqs \ {r} :
                      /\ pc'[q] = pc[q]
                      /\ req'[q] = req[q]
                      /\ fetch'[q] = fetch[q]
                      /\ job'[q] = job[q]
                      /\ chan'[q] = chan[q]
                      /\ run'[q] = run[q]
                      /\ resp'[q] = resp[q]]_vars

\* C22's case: the worker of a request whose client went away finished a
\* successful run, and the other request was answered 200.
C22_Witness ==
    \E r \in Reqs : \E q \in Reqs \ {r} :
        /\ pc[r] = "gone"
        /\ job[r].st = "finished"
        /\ run[r].result.res.ok
        /\ resp[q].status = 200

\* C23: the quality handed to the pipeline, and encoded with, is 68 when
\* the main image address ends with 400X400.jpg and the quality of the
\* query otherwise.
C23_QualityOverride ==
    \A r \in Reqs :
        LET addr == req[r].params.image_address
            expected == IF Len(addr) > 0 /\ addr[Len(addr)] = "400X400.jpg"
                        THEN 68 ELSE req[r].quality
        IN /\ job[r].st # "none" => job[r].parameters.quality = expected
           /\ (run[r].ran /\ run[r].result.res.ok) =>
                 run[r].result.res.val.quality = expected

\* C23's case: a request for an address with the suffix asked for a
\* quality below 68 and was encoded at 68.
C23_Witness ==
    \E r \in Reqs :
        /\ run[r].ran
        /\ run[r].result.res.ok
        /\ req[r].quality = 50
        /\ run[r].result.res.val.quality = 68

\* The place of an operation in the pipeline.
StageRank(op) ==
    CASE op = "decode" -> 1
      [] op = "smartcrop" -> 2
      [] op = "composite" -> 3
      [] op = "square" -> 4
      [] op = "encode" -> 5
      [] OTHER -> 0

\* C24: the log of a successful run starts with decode, ends with encode
\* and goes through the stages in order, only the composite repeating;
\* every composite works with the dimensions the image has after the crop.
C24_StageOrder ==
    \A r \in Reqs :
        (run[r].ran /\ run[r].result.res.ok) =>
            LET log == run[r].result.log
            IN /\ log[1].op = "decode"
               /\ log[Len(log)].op = "encode"
               /\ \A n, m \in DOMAIN log :
                     n < m =>
                        /\ StageRank(log[n].op) <= StageRank(log[m].op)
                        /\ StageRank(log[n].op) = StageRank(log[m].op) =>
                              log[n].op = "composite"
               /\ \A n \in DOMAIN log : StageRank(log[n].op) # 0
               /\ \A n \in DOMAIN log :
                     log[n].op = "composite" =>
                        /\ log[n].w = BeforeSquare(r).w
                        /\ log[n].h = BeforeSquare(r).h

\* C24's case: a successful run that cropped to a smaller image,
\* composited a watermark and padded to a square.
C24_Witness ==
    \E r \in Reqs :
        /\ run[r].ran
        /\ run[r].result.res.ok
        /\ HasOp(r, "smartcrop")
        /\ HasOp(r, "composite")
        /\ HasOp(r, "square")
        /\ BeforeSquare(r) # Image(job[r].buffer.w, job[r].buffer.h)

\* C25: the handle of a run is marked for teardown exactly when the run
\* reached encode, whether the encode succeeded or not, in every format.
C25_KillIffEncodeReached ==
    \A r \in Reqs :
        run[r].ran =>
            /\ run[r].result.kill <=> ReachedEncode(r)
            /\ run[r].result.res.ok => ReachedEncode(r)
            /\ (~run[r].result.res.ok /\ run[r].result.res.err.kind = "SaveBufferError")
                  => run[r].result.kill
            /\ (~run[r].result.res.ok /\ run[r].result.res.err.kind # "SaveBufferError")
                  => ~run[r].result.kill

\* C25's case: the encode was attempted and failed, and the handle is
\* marked.
C25_Witness ==
    \E r \in Reqs :
        /\ run[r].ran
        /\ ~run[r].result.res.ok
        /\ ReachedEncode(r)
        /\ run[r].result.kill

\* C26: a get_file call for a remote address that returns bytes returns
\* the bytes the server holds at that address, whatever other calls for
\* the address are under way.
C26_CompleteBytes ==
    \A r \in Reqs : \A k \in Slots :
        LET f == fetch[r][k]
        IN (f.st = "done" /\ f.res.ok /\ starts_with_http(f.resource)) =>
              f.res.val = RemoteContent(f.resource)

\* C27: the handler's path for a main image address is the provider's;
\* once get_file has returned the main image's bytes the file at the
\* handler's path exists, the metadata read does not fail and the header
\* value is taken from that file.
C27_HandlerPathIsProviderPath ==
    /\ \A a \in MainAddrs :
          (~starts_with_http(a) \/ UrlParse(a).ok) => real_filepath(a) = provider_filepath(a)
    /\ \A r \in Reqs :
          (fetch[r][0].st = "done" /\ fetch[r][0].res.ok) =>
              /\ FileAt(real_filepath(req[r].params.image_address)).exists
              /\ pc[r] # "panicked"
              /\ pc[r] # "fetch_main" => is_some(req[r].last_modified_header)

\* C27's case: the main image came from the network, was written to the
\* cache file, and the handler read that file's modification time.
C27_Witness ==
    \E r \in Reqs :
        /\ fetch[r][0].st = "done"
        /\ fetch[r][0].outcome = "success"
        /\ is_some(req[r].last_modified_header)
        /\ pc[r] = "fetch_wm"

\* C28: once a request has been answered 200 with Last-Modified L, and
\* nothing is under way that writes the file, a request for the same
\* address that sends L as If-Modified-Since is answered 304, whatever its
\* other parameters; one that sends another value, or none, goes on to the
\* fetch and is not answered 304.
C28_ConditionalRoundTrip ==
    [][\A q \in Reqs : \A r \in Reqs \ {q} :
          (/\ resp[q].status = 200
           /\ pc[r] = "idle"
           /\ pc'[r] # "idle"
           /\ req'[r].params.image_address = req[q].params.image_address) =>
              IF req'[r].if_modified = resp[q].last_modified
              THEN /\ pc'[r] = "done"
                   /\ resp'[r].status = 304
                   /\ resp'[r].body = <<>>
              ELSE /\ pc'[r] = "fetch_main"
                   /\ resp'[r] = NoResp]_vars

\* C28's case: a request was answered 200, and a request for the same
\* address with other parameters that sent the Last-Modified value of that
\* answer was answered 304.
C28_Witness ==
    \E q \in Reqs : \E r \in Reqs \ {q} :
        /\ resp[q].status = 200
        /\ resp[r].status = 304
        /\ req[r].params.image_address = req[q].params.image_address
        /\ req[r].params.format # req[q].params.format
        /\ req[r].if_modified = resp[q].last_modified

=============================================================================
